---------------------------- MODULE Spec2Model ----------------------------
(***************************************************************************)
(* A model of the caching proxy of src/app.py.                             *)
(*                                                                         *)
(* Strings are sequences of one-character strings, so that startswith,     *)
(* replace, the substring test `in`, lower() and the path derivation are   *)
(* computed as the code computes them.  Four characters have names:        *)
(* "CR" and "LF" (carriage return, line feed), "xFF" (a byte that is not   *)
(* valid UTF-8) and "uFFFD" (the replacement character).                   *)
(***************************************************************************)
EXTENDS Integers, Sequences, FiniteSets, TLC

VARIABLES
    allow_urls,  \* the configured ALLOW_URLS (fixed after start)
    now,         \* time.time(), in seconds since the start
    ticks,       \* how often the clock has advanced (bounded)
    dirs,        \* the sub-directories of CACHE_DIR that exist
    files,       \* the cache files: path -> [content, mtime, by]
    pc,          \* each request's position in proxy_full_async
    task,        \* each request's locals: url, cache_path, content_type, ...
    resp,        \* each request's response, once it has returned
    log,         \* each request's disk and network operations, in order
    pred,        \* the requests that had returned when this one arrived
    probe        \* the inputs and output of a pure function under test

vars == <<allow_urls, now, ticks, dirs, files, pc, task, resp, log, pred, probe>>

---------------------------------------------------------------------------
(* Bounds of the model. *)

\* Number of requests handled (concurrently or one after the other).
MaxRequests == 2
\* Number of times the clock advances.
MaxTicks == 2
\* Length of the URL tails enumerated for the path derivation.
MaxTail == 2

Requests == 1..MaxRequests

---------------------------------------------------------------------------
(* String helpers (Python's str methods). *)

StartsWith(s, p) == Len(p) <= Len(s) /\ SubSeq(s, 1, Len(p)) = p

EndsWith(s, p) == Len(p) <= Len(s) /\ SubSeq(s, Len(s) - Len(p) + 1, Len(s)) = p

\* p in s
Contains(s, p) == \E i \in 0..(Len(s) - Len(p)) : SubSeq(s, i + 1, i + Len(p)) = p

\* s.replace(a, b) for single characters a and b
Replace(s, a, b) == [i \in 1..Len(s) |-> IF s[i] = a THEN b ELSE s[i]]

\* The least element of the set I of numbers, none if I is empty
MinOf(I, none) == IF I = {} THEN none ELSE CHOOSE i \in I : \A j \in I : i <= j

\* The greatest element of the set I of numbers, none if I is empty
MaxOf(I, none) == IF I = {} THEN none ELSE CHOOSE i \in I : \A j \in I : j <= i

\* s.find of any character of cs at or after position from; Len(s) + 1 if none
IndexOfAny(s, cs, from) == MinOf({i \in from..Len(s) : s[i] \in cs}, Len(s) + 1)

\* s.rfind(c); 0 if none
LastIndexOf(s, c) == MaxOf({i \in 1..Len(s) : s[i] = c}, 0)

UpperCase == <<"A", "B", "C", "D", "E", "F", "G", "H", "I", "J", "K", "L", "M",
               "N", "O", "P", "Q", "R", "S", "T", "U", "V", "W", "X", "Y", "Z">>
LowerCase == <<"a", "b", "c", "d", "e", "f", "g", "h", "i", "j", "k", "l", "m",
               "n", "o", "p", "q", "r", "s", "t", "u", "v", "w", "x", "y", "z">>
Digits == {"0", "1", "2", "3", "4", "5", "6", "7", "8", "9"}
Letters == {UpperCase[i] : i \in 1..26} \cup {LowerCase[i] : i \in 1..26}

LowerChar(c) ==
    IF \E i \in 1..26 : UpperCase[i] = c
    THEN LowerCase[CHOOSE i \in 1..26 : UpperCase[i] = c]
    ELSE c

\* s.lower()
Lower(s) == [i \in 1..Len(s) |-> LowerChar(s[i])]

---------------------------------------------------------------------------
(* Configuration (src/app.py 25-34). *)

PREFIX == <<"/", "c", "a", "c", "h", "i", "n", "g", "p", "r", "o", "x", "y">>

ALLOW_URLS ==
    << <<"h", "t", "t", "p", ":", "/", "/", "e", "x", "a", "m", "p", "l", "e", ".", "c", "o", "m">>,
       <<"h", "t", "t", "p", "s", ":", "/", "/", "a", "d", "v", "e", "n", "t", "o", "f", "c", "o", "d", "e", ".", "c", "o", "m">> >>

ONE_MINUTE_IN_SECONDS == 60
ONE_HOUR_IN_SECONDS == 60 * ONE_MINUTE_IN_SECONDS
ONE_DAY_IN_SECONDS == 24 * ONE_HOUR_IN_SECONDS
ONE_YEAR_IN_SECONDS == 365 * ONE_DAY_IN_SECONDS
DEFAULT_CACHE_EXPIRY == ONE_YEAR_IN_SECONDS

\* The allowlists a deployment is started with: the shipped one and the
\* empty list.
Configurations == {ALLOW_URLS, <<>>}

HTTP == <<"h", "t", "t", "p", ":", "/", "/">>
HTTPS == <<"h", "t", "t", "p", "s", ":", "/", "/">>
EXT_HTML == <<".", "h", "t", "m", "l">>
EXT_BIN == <<".", "b", "i", "n">>
IMAGE == <<"i", "m", "a", "g", "e">>
TEXT_HTML == <<"t", "e", "x", "t", "/", "h", "t", "m", "l">>

\* content_type=None
None == <<"None">>

---------------------------------------------------------------------------
(* The cache key resolver (src/app.py 43-64). *)

\* url.replace("/", "$").replace(":", "#")
encode_url(url) == Replace(Replace(url, "/", "$"), ":", "#")

\* urllib.parse.urlparse(url), step by step as urlsplit takes the URL apart
\* (a URL with ";" parameters is outside the model).  The query is what follows
\* the first "?" before the fragment.
parse_query(scheme, netloc, nofrag, fragment, qm) ==
    [scheme |-> scheme, netloc |-> netloc, path |-> SubSeq(nofrag, 1, qm - 1),
     query |-> SubSeq(nofrag, qm + 1, Len(nofrag)), fragment |-> fragment]

\* The fragment is what follows the first "#" after the netloc.
parse_fragment(scheme, netloc, tail, hash) ==
    parse_query(scheme, netloc, SubSeq(tail, 1, hash - 1), SubSeq(tail, hash + 1, Len(tail)),
                IndexOfAny(SubSeq(tail, 1, hash - 1), {"?"}, 1))

\* The netloc is what follows "//", up to the first of "/", "?", "#"; delim is
\* where it ends (1 without "//").
parse_netloc(scheme, rest, delim) ==
    parse_fragment(scheme, SubSeq(rest, 3, delim - 1), SubSeq(rest, delim, Len(rest)),
                   IndexOfAny(SubSeq(rest, delim, Len(rest)), {"#"}, 1))

\* rest is the URL after its scheme.
parse_rest(scheme, rest) ==
    parse_netloc(scheme, rest,
                 IF StartsWith(rest, <<"/", "/">>) THEN IndexOfAny(rest, {"/", "?", "#"}, 3) ELSE 1)

\* The scheme ends at the first ":" (at colon) when it starts with a letter and
\* only scheme characters precede the ":".
has_scheme(url, colon) ==
    /\ colon <= Len(url)
    /\ colon > 1
    /\ url[1] \in Letters
    /\ \A i \in 1..(colon - 1) : url[i] \in Letters \cup Digits \cup {"+", "-", "."}

\* k is the position of the ":" that ends the scheme, 0 without a scheme.
parse_scheme(url, k) == parse_rest(SubSeq(url, 1, k - 1), SubSeq(url, k + 1, Len(url)))

find_scheme(url, colon) == parse_scheme(url, IF has_scheme(url, colon) THEN colon ELSE 0)

urlparse(url) == find_scheme(url, IndexOfAny(url, {":"}, 1))

\* os.path.splitext(p)[1]: the text from the last "." of the last component,
\* unless only dots precede it in that component.
splitext(p) ==
    LET sep == LastIndexOf(p, "/")
        dot == LastIndexOf(p, ".")
    IN  IF dot > sep /\ \E i \in (sep + 1)..(dot - 1) : p[i] # "."
        THEN SubSeq(p, dot, Len(p))
        ELSE <<>>

\* mimetypes.guess_extension(content_type): the standard table, for the types
\* of the model; a type with parameters or an unknown type has no extension.
guess_extension(content_type) ==
    IF content_type = <<"i", "m", "a", "g", "e", "/", "p", "n", "g">>
    THEN <<".", "p", "n", "g">>
    ELSE IF content_type = <<"t", "e", "x", "t", "/", "c", "s", "s">>
    THEN <<".", "c", "s", "s">>
    ELSE <<>>

\* Lines 54-61: the extension, guessed being mimetypes.guess_extension of the
\* content type and path the path of the parsed URL.
cache_ext(content_type, guessed, path) ==
    IF content_type # None /\ content_type # <<>> /\ Contains(content_type, IMAGE)
    THEN IF guessed # <<>> THEN guessed
         ELSE IF splitext(path) # <<>> THEN splitext(path)
         ELSE EXT_BIN
    ELSE EXT_HTML

\* Line 62: the file path, relative to CACHE_DIR: the directory (the netloc)
\* and the file name (the encoded URL and the extension).
cache_file(url, content_type, parsed) ==
    [dir |-> parsed.netloc,
     name |-> encode_url(url) \o cache_ext(content_type, guess_extension(content_type), parsed.path)]

\* get_cache_path(url, content_type); the directory it makes is cache_path.dir.
get_cache_path(url, content_type) == cache_file(url, content_type, urlparse(url))

---------------------------------------------------------------------------
(* Text and bytes.  A payload is a sequence of tokens: a character (or a   *)
(* byte) [tag |-> "#text", attrs |-> [c |-> ch]], or an HTML tag with its  *)
(* attributes, which stands for its ASCII serialisation.                   *)

Ch(c) == [tag |-> "#text", attrs |-> [c |-> c]]

IsCh(t, c) == t.tag = "#text" /\ t.attrs.c = c

RECURSIVE Concat(_)
\* The concatenation of a sequence of sequences.
Concat(ss) == IF ss = <<>> THEN <<>> ELSE Head(ss) \o Concat(Tail(ss))

\* The line separator text mode writes for "\n" (POSIX).
os_linesep == <<Ch("LF")>>

\* str.encode("utf-8"), token by token: U+FFFD becomes three bytes.
utf8_encode(text) ==
    Concat([i \in 1..Len(text) |->
               IF IsCh(text[i], "uFFFD")
               THEN <<Ch("xEF"), Ch("xBF"), Ch("xBD")>>
               ELSE <<text[i]>>])

RECURSIVE utf8_decode(_)
\* bytes.decode("utf-8", errors="replace"): the three bytes of U+FFFD decode to
\* it, and a byte that starts no valid sequence decodes to U+FFFD.
utf8_decode(bytes) ==
    IF bytes = <<>> THEN <<>>
    ELSE IF Len(bytes) >= 3 /\ SubSeq(bytes, 1, 3) = <<Ch("xEF"), Ch("xBF"), Ch("xBD")>>
    THEN <<Ch("uFFFD")>> \o utf8_decode(SubSeq(bytes, 4, Len(bytes)))
    ELSE IF bytes[1].tag = "#text" /\ bytes[1].attrs.c \in {"xFF", "xEF", "xBF", "xBD"}
    THEN <<Ch("uFFFD")>> \o utf8_decode(Tail(bytes))
    ELSE <<bytes[1]>> \o utf8_decode(Tail(bytes))

\* Text mode on write (newline=None): "\n" becomes os.linesep.
newline_out(text) ==
    Concat([i \in 1..Len(text) |-> IF IsCh(text[i], "LF") THEN os_linesep ELSE <<text[i]>>])

RECURSIVE newline_in(_)
\* Text mode on read (newline=None): "\r\n" and "\r" become "\n".
newline_in(text) ==
    IF text = <<>> THEN <<>>
    ELSE IF IsCh(text[1], "CR")
    THEN <<Ch("LF")>> \o newline_in(IF Len(text) >= 2 /\ IsCh(text[2], "LF")
                                    THEN SubSeq(text, 3, Len(text))
                                    ELSE Tail(text))
    ELSE <<text[1]>> \o newline_in(Tail(text))

\* The bytes write_cache puts in the file (src/app.py 92-99).
write_cache(content, binary) ==
    IF binary THEN content ELSE utf8_encode(newline_out(content))

\* What read_cache returns for a file holding bytes (src/app.py 80-89).
read_cache(bytes, binary) ==
    IF binary THEN bytes ELSE newline_in(utf8_decode(bytes))

---------------------------------------------------------------------------
(* The URL rewrite rule (src/app.py 102-117). *)

RECURSIVE Split(_, _)
\* s.split(c)
Split(s, c) ==
    LET i == IndexOfAny(s, {c}, 1)
    IN  IF i > Len(s) THEN <<s>>
        ELSE <<SubSeq(s, 1, i - 1)>> \o Split(SubSeq(s, i + 1, Len(s)), c)

RECURSIVE Join(_, _)
\* sep.join(parts)
Join(parts, sep) ==
    IF parts = <<>> THEN <<>>
    ELSE IF Len(parts) = 1 THEN parts[1]
    ELSE parts[1] \o sep \o Join(Tail(parts), sep)

\* s.strip()
Strip(s) ==
    LET I == {i \in 1..Len(s) : s[i] \notin {" ", "CR", "LF"}}
    IN  IF I = {} THEN <<>>
        ELSE SubSeq(s, CHOOSE i \in I : \A j \in I : i <= j,
                       CHOOSE i \in I : \A j \in I : j <= i)

QuotedChars == <<" ", "!", "\"", "#", "$", "%", "&", "'", "(", ")", "*", "+", ",", ":", ";", "<", "=", ">", "?", "@", "[", "\\", "]", "^", "{", "|", "}">>
QuotedCodes == <<<<"%", "2", "0">>, <<"%", "2", "1">>, <<"%", "2", "2">>, <<"%", "2", "3">>, <<"%", "2", "4">>, <<"%", "2", "5">>, <<"%", "2", "6">>, <<"%", "2", "7">>, <<"%", "2", "8">>, <<"%", "2", "9">>, <<"%", "2", "A">>, <<"%", "2", "B">>, <<"%", "2", "C">>, <<"%", "3", "A">>, <<"%", "3", "B">>, <<"%", "3", "C">>, <<"%", "3", "D">>, <<"%", "3", "E">>, <<"%", "3", "F">>, <<"%", "4", "0">>, <<"%", "5", "B">>, <<"%", "5", "C">>, <<"%", "5", "D">>, <<"%", "5", "E">>, <<"%", "7", "B">>, <<"%", "7", "C">>, <<"%", "7", "D">>>>

\* urllib.parse.quote(s), safe="/": letters, digits, "_.-~" and "/" stay, every
\* other ASCII character of the table becomes "%XX".
quote(s) ==
    Concat([i \in 1..Len(s) |->
               IF \E k \in 1..Len(QuotedChars) : QuotedChars[k] = s[i]
               THEN QuotedCodes[CHOOSE k \in 1..Len(QuotedChars) : QuotedChars[k] = s[i]]
               ELSE <<s[i]>>])

\* urllib.parse.urlunparse
urlunparse(scheme, netloc, path, query, fragment) ==
    (IF scheme = <<>> THEN <<>> ELSE scheme \o <<":">>)
    \o (IF netloc = <<>> THEN <<>>
        ELSE <<"/", "/">> \o netloc)
    \o (IF netloc # <<>> /\ path # <<>> /\ path[1] # "/" THEN <<"/">> ELSE <<>>)
    \o path
    \o (IF query = <<>> THEN <<>> ELSE <<"?">> \o query)
    \o (IF fragment = <<>> THEN <<>> ELSE <<"#">> \o fragment)

RECURSIVE resolve_segments(_, _)
\* The loop of urljoin over the segments: ".." pops, "." is skipped.
resolve_segments(segments, resolved) ==
    IF segments = <<>> THEN resolved
    ELSE resolve_segments(Tail(segments),
            IF Head(segments) = <<".", ".">>
            THEN SubSeq(resolved, 1, Len(resolved) - 1)
            ELSE IF Head(segments) = <<".">> THEN resolved
            ELSE Append(resolved, Head(segments)))

\* segments[1:-1] = filter(None, segments[1:-1])
filter_middle(segments) ==
    IF Len(segments) <= 2 THEN segments
    ELSE <<segments[1]>>
         \o SelectSeq(SubSeq(segments, 2, Len(segments) - 1), LAMBDA x : x # <<>>)
         \o <<segments[Len(segments)]>>

\* base_parts: the segments of the base path without the last, unless it is empty
base_parts(bsplit) ==
    IF bsplit[Len(bsplit)] # <<>> THEN SubSeq(bsplit, 1, Len(bsplit) - 1) ELSE bsplit

\* The segments of the joined path before "." and ".." are resolved.
join_segments(bpath, path) ==
    IF path[1] = "/" THEN Split(path, "/")
    ELSE filter_middle(base_parts(Split(bpath, "/")) \o Split(path, "/"))

\* The resolved path: a final "." or ".." leaves a trailing "/".
resolved_path(segments) ==
    Join(resolve_segments(segments, <<>>)
             \o (IF segments[Len(segments)] \in {<<".">>, <<".", ".">>} THEN << <<>> >> ELSE <<>>),
         <<"/">>)

or_slash(path) == IF path = <<>> THEN <<"/">> ELSE path

\* urljoin for the parsed base b and the parsed url u (b with scheme http or
\* https, which are in uses_relative and uses_netloc).
urljoin_parsed(b, u, url) ==
    IF u.scheme # <<>> /\ u.scheme # b.scheme THEN url
    ELSE IF u.netloc # <<>>
    THEN urlunparse(b.scheme, u.netloc, u.path, u.query, u.fragment)
    ELSE urlunparse(b.scheme, b.netloc,
                    IF u.path = <<>> THEN b.path
                    ELSE or_slash(resolved_path(join_segments(b.path, u.path))),
                    IF u.path = <<>> /\ u.query = <<>> THEN b.query ELSE u.query,
                    u.fragment)

\* urllib.parse.urljoin(base, url)
urljoin(base, url) ==
    IF url = <<>> THEN base ELSE urljoin_parsed(urlparse(base), urlparse(url), url)

PROXY_URL == PREFIX \o <<"/", "p", "r", "o", "x", "y", "?", "u", "r", "l", "=">>

\* A rewrite rule that does not resolve a relative URL against the base.
rewrite_url_unresolved(url, base_url) ==
    IF url = None \/ url = <<>> THEN url
    ELSE IF \/ StartsWith(url, <<"j", "a", "v", "a", "s", "c", "r", "i", "p", "t", ":">>)
            \/ StartsWith(url, <<"d", "a", "t", "a", ":">>)
            \/ StartsWith(url, <<"#">>)
            \/ StartsWith(url, <<"m", "a", "i", "l", "t", "o", ":">>)
    THEN url
    ELSE PROXY_URL \o quote(url)

\* rewrite_url(url, base_url); None is an absent attribute.
rewrite_url(url, base_url) ==
    IF url = None \/ url = <<>> THEN url
    ELSE IF \/ StartsWith(url, <<"j", "a", "v", "a", "s", "c", "r", "i", "p", "t", ":">>)
            \/ StartsWith(url, <<"d", "a", "t", "a", ":">>)
            \/ StartsWith(url, <<"#">>)
            \/ StartsWith(url, <<"m", "a", "i", "l", "t", "o", ":">>)
    THEN url
    ELSE IF ~(StartsWith(url, HTTP) \/ StartsWith(url, HTTPS))
    THEN PROXY_URL \o quote(urljoin(base_url, url))
    ELSE PROXY_URL \o quote(url)

---------------------------------------------------------------------------
(* The link rewriter (src/app.py 120-181).  The parsed document is the     *)
(* sequence of its tags and characters in document order; a closing tag is *)
(* a token whose tag starts with "/".                                      *)

El(tag, attrs) == [tag |-> tag, attrs |-> attrs]

HasAttr(t, k) == t.tag # "#text" /\ k \in DOMAIN t.attrs

\* tag[k] = v
SetAttr(t, k, v) ==
    [tag |-> t.tag,
     attrs |-> [a \in (DOMAIN t.attrs) \cup {k} |-> IF a = k THEN v ELSE t.attrs[a]]]

STYLESHEET == <<"s", "t", "y", "l", "e", "s", "h", "e", "e", "t">>
ALTERNATE == <<"a", "l", "t", "e", "r", "n", "a", "t", "e">>
ONZIN == <<"O", "N", "Z", "I", "N">>
SELF == <<"_", "s", "e", "l", "f">>
VIEWPORT == <<"v", "i", "e", "w", "p", "o", "r", "t">>
VIEWPORT_CONTENT == <<"w", "i", "d", "t", "h", "=", "d", "e", "v", "i", "c", "e", "-", "w", "i", "d", "t", "h", ",", " ", "i", "n", "i", "t", "i", "a", "l", "-", "s", "c", "a", "l", "e", "=", "1", ".", "0">>

\* The srcset loop: split on ",", strip, split on " ", rewrite the first part.
rewrite_srcset(value, base_url) ==
    LET candidates == Split(value, ",")
        one(c) == LET parts == Split(Strip(c), " ")
                  IN  Join(<<rewrite_url(parts[1], base_url)>> \o Tail(parts), <<" ">>)
    IN  Join([i \in 1..Len(candidates) |-> one(candidates[i])], <<",", " ">>)

\* "stylesheet" in link.get("rel"), rel being the list of its values
IsStylesheet(t) ==
    /\ HasAttr(t, "rel")
    /\ \E i \in 1..Len(t.attrs.rel) : t.attrs.rel[i] = STYLESHEET

\* The five find_all loops, for one tag.
rewrite_tag(t, base_url) ==
    IF t.tag = "a" /\ HasAttr(t, "href")
    THEN SetAttr(t, "href", rewrite_url(t.attrs.href, base_url))
    ELSE IF t.tag = "img" /\ HasAttr(t, "src")
    THEN LET t1 == SetAttr(t, "src", rewrite_url(t.attrs.src, base_url))
         IN  IF HasAttr(t, "srcset") /\ t.attrs.srcset # <<>>
             THEN SetAttr(t1, "srcset", rewrite_srcset(t.attrs.srcset, base_url))
             ELSE t1
    ELSE IF t.tag = "link" /\ HasAttr(t, "href")
    THEN IF IsStylesheet(t)
         THEN SetAttr(t, "href", rewrite_url(t.attrs.href, base_url))
         ELSE t
    ELSE IF t.tag = "script" /\ HasAttr(t, "src")
    THEN SetAttr(t, "src", rewrite_url(t.attrs.src, base_url))
    ELSE IF t.tag = "form" /\ HasAttr(t, "action")
    THEN SetAttr(t, "action", rewrite_url(t.attrs.action, base_url))
    ELSE t

\* soup.find(tag): the position of the first such tag at or after from, 0 if none
FindTag(doc, tag, from) ==
    LET I == {i \in from..Len(doc) : doc[i].tag = tag}
    IN  IF I = {} THEN 0 ELSE CHOOSE i \in I : \A j \in I : i <= j

\* The least position in a set of positions, 0 if there is none
First(I) == IF I = {} THEN 0 ELSE CHOOSE i \in I : \A j \in I : i <= j

\* soup.find("link", attrs={"rel": "stylesheet alternate"})
IsAlternate(t) == HasAttr(t, "rel") /\ t.attrs.rel = <<STYLESHEET, ALTERNATE>>

\* The tokens xs inserted after position i
InsertAfter(doc, i, xs) == SubSeq(doc, 1, i) \o xs \o SubSeq(doc, i + 1, Len(doc))

\* Lines 163-171: the first link whose rel is "stylesheet alternate" becomes
\* the stylesheet, and the first stylesheet link is made invalid.
swap_stylesheets(doc) ==
    LET stylesheet2 == First({i \in 1..Len(doc) : doc[i].tag = "link" /\ IsAlternate(doc[i])})
        stylesheet == First({i \in 1..Len(doc) : doc[i].tag = "link" /\ IsStylesheet(doc[i])})
        d1 == [doc EXCEPT ![stylesheet] = SetAttr(@, "rel", <<ONZIN>>)]
    IN  IF stylesheet2 = 0 THEN doc
        ELSE [d1 EXCEPT ![stylesheet2] = SetAttr(@, "rel", <<STYLESHEET>>)]

\* Lines 158-159 and 172-179: an existing base tag gets target="_self"; without
\* one, a base tag is put first in the head and the viewport meta tag last, or
\* a new head holding the base tag is put first in the html element.
add_base(doc) ==
    LET base == FindTag(doc, "base", 1)
        head == FindTag(doc, "head", 1)
        html == FindTag(doc, "html", 1)
        base_tag == El("base", [target |-> SELF])
        meta_tag == El("meta", [name |-> VIEWPORT, content |-> VIEWPORT_CONTENT])
        close == FindTag(doc, "/head", head + 1)
        last == IF close = 0 THEN Len(doc) ELSE close - 1
    IN  IF base # 0
        THEN [doc EXCEPT ![base] = SetAttr(@, "target", SELF)]
        ELSE IF head # 0
        THEN InsertAfter(InsertAfter(doc, last, <<meta_tag>>), head, <<base_tag>>)
        ELSE IF html # 0
        THEN InsertAfter(doc, html, <<El("head", <<>>), base_tag, El("/head", <<>>)>>)
        ELSE doc

\* rewrite_html(html_content, base_url)
rewrite_html(html_content, base_url) ==
    IF html_content = <<>> THEN <<>>
    ELSE add_base(swap_stylesheets(
             [i \in 1..Len(html_content) |-> rewrite_tag(html_content[i], base_url)]))

---------------------------------------------------------------------------
(* The inputs of the model: the url parameters of the requests and what    *)
(* the origin answers.                                                     *)

URL_AB == <<"h", "t", "t", "p", "s", ":", "/", "/", "a", "d", "v", "e", "n", "t", "o", "f", "c", "o", "d", "e", ".", "c", "o", "m", "/", "a", "/", "b">>
URL_AB_NO_SCHEME == <<"a", "d", "v", "e", "n", "t", "o", "f", "c", "o", "d", "e", ".", "c", "o", "m", "/", "a", "/", "b">>
URL_A_DOLLAR_B == <<"h", "t", "t", "p", "s", ":", "/", "/", "a", "d", "v", "e", "n", "t", "o", "f", "c", "o", "d", "e", ".", "c", "o", "m", "/", "a", "$", "b">>
URL_EVIL == <<"h", "t", "t", "p", "s", ":", "/", "/", "e", "v", "i", "l", ".", "e", "x", "a", "m", "p", "l", "e", "/">>

\* request.args.get("url"): <<>> is a missing (or empty) parameter.
RawURLs == {<<>>, URL_AB, URL_AB_NO_SCHEME, URL_A_DOLLAR_B, URL_EVIL}

CT_HTML == <<"t", "e", "x", "t", "/", "h", "t", "m", "l", ";", " ", "c", "h", "a", "r", "s", "e", "t", "=", "U", "T", "F", "-", "8">>
CT_CSS == <<"t", "e", "x", "t", "/", "c", "s", "s", ";", " ", "c", "h", "a", "r", "s", "e", "t", "=", "U", "T", "F", "-", "8">>
CT_PNG == <<"i", "m", "a", "g", "e", "/", "p", "n", "g">>
\* The content type of a response made from a str.
CT_DEFAULT == <<"t", "e", "x", "t", "/", "h", "t", "m", "l", ";", " ", "c", "h", "a", "r", "s", "e", "t", "=", "u", "t", "f", "-", "8">>

\* A page with a head, a relative link and a line ending in "\r\n".
DOC_LINK == <<El("head", <<>>), El("/head", <<>>),
              El("a", [href |-> <<"d", "/", "2">>]), Ch("CR"), Ch("LF")>>
\* Bytes that are not valid UTF-8, with a carriage return.
BYTES == <<Ch("x"), Ch("xFF"), Ch("CR")>>

NoException == [type |-> "none", msg |-> "n/a"]
ForbiddenURL == [type |-> "Exception", msg |-> "Forbidden URL!"]
\* A connection failure and a timeout of the outbound call (str() of a
\* TimeoutError is empty), and a failing disk operation.
ClientConnectorError == [type |-> "ClientConnectorError", msg |-> "Cannot connect to host"]
TimeoutError == [type |-> "TimeoutError", msg |-> ""]
OSError == [type |-> "OSError", msg |-> "Input/output error"]

Answer(status, content_type, body) ==
    [exc |-> NoException, status |-> status, content_type |-> content_type, body |-> body]

Failure(exc) == [exc |-> exc, status |-> 0, content_type |-> <<>>, body |-> <<>>]

\* What session.get and the reading of the body end in.
Upstream ==
    {Answer(200, CT_HTML, DOC_LINK), Answer(200, CT_PNG, BYTES), Answer(200, CT_CSS, BYTES),
     Answer(404, CT_HTML, DOC_LINK),
     Failure(ClientConnectorError), Failure(TimeoutError)}

---------------------------------------------------------------------------
(* The request handler proxy_full_async (src/app.py 252-374).              *)

NoTask == [raw |-> None, url |-> None, cache_path |-> None, content_type |-> None,
           upstream |-> Failure(NoException), content |-> <<>>, binary |-> FALSE]

NoResponse == [kind |-> "none", body |-> <<>>, content_type |-> None, url |-> None,
               status_code |-> 0, error |-> "n/a"]

\* redirect(url_for("index"))
Redirect == [NoResponse EXCEPT !.kind = "redirect"]

\* A str returned by the handler: the framework encodes it as UTF-8.
Html(text) == [NoResponse EXCEPT !.kind = "html", !.body = utf8_encode(text),
                                 !.content_type = CT_DEFAULT]

\* Response(content, content_type=content_type)
Response(content, content_type) ==
    [NoResponse EXCEPT !.kind = "response", !.body = content, !.content_type = content_type]

\* The error page of lines 302-325.
StatusPage(url, status_code) ==
    [NoResponse EXCEPT !.kind = "error_status", !.url = url, !.status_code = status_code]

\* The error page of lines 351-374, error=str(e).
ExceptionPage(url, e) ==
    [NoResponse EXCEPT !.kind = "error_exception", !.url = url, !.error = e.msg]

\* An except clause that catches the Forbidden-URL error alone.
caught_forbidden_only(e) == e = ForbiddenURL

\* except Exception: every exception of the model is an Exception.
caught(e) == TRUE

\* What a request ends in when e is raised inside the try block.
raise(url, e) ==
    IF caught(e) THEN ExceptionPage(url, e) ELSE [NoResponse EXCEPT !.kind = "unhandled"]

\* Lines 262-263.
normalize(url) ==
    IF ~(StartsWith(url, HTTP) \/ StartsWith(url, HTTPS)) THEN HTTPS \o url ELSE url

RECURSIVE allow_loop(_, _, _)
\* The loop of lines 267-271 over the rest of the list.
allow_loop(url, rest, allowed) ==
    IF rest = <<>> THEN allowed
    ELSE IF StartsWith(url, Head(rest)) THEN TRUE
    ELSE allow_loop(url, Tail(rest), FALSE)

\* A guard that lets every URL through.
is_allowed_any(url, allowed_urls) == TRUE

\* Lines 265-271: allowed is True before the loop.
is_allowed(url, allowed_urls) == allow_loop(url, allowed_urls, TRUE)

\* A freshness check that takes an entry of age max_age for fresh.
is_cached_inclusive(url, max_age) ==
    LET cache_path == get_cache_path(url, None)
    IN  /\ cache_path \in DOMAIN files
        /\ now - files[cache_path].mtime <= max_age

\* os.path.exists(cache_path) and its age is below max_age (lines 70-77).
is_cached(url, max_age) ==
    LET cache_path == get_cache_path(url, None)
    IN  /\ cache_path \in DOMAIN files
        /\ now - files[cache_path].mtime < max_age

\* A handler that takes every status for a success.
status_any(status) == TRUE

\* response.status != 200 is the error branch.
status_ok(status) == status = 200

\* Lines 331-339: the payload is cached and served as it came.
binary_branch(body, content_type) ==
    [content |-> body, binary |-> TRUE, content_type |-> content_type]

\* Lines 341-348: the document is rewritten, then cached and served.
html_branch(html_content, url, content_type) ==
    [content |-> rewrite_html(html_content, url), binary |-> FALSE,
     content_type |-> content_type]

\* The file with new content, written now by request r.
Written(path, bytes, r) ==
    [p \in (DOMAIN files) \cup {path} |->
        IF p = path THEN [content |-> bytes, mtime |-> now, by |-> r] ELSE files[p]]

Finish(r, response) ==
    /\ pc' = [pc EXCEPT ![r] = "done"]
    /\ resp' = [resp EXCEPT ![r] = response]

Logged(r, events) == log' = [log EXCEPT ![r] = log[r] \o events]

\* time.time() advances.
Tick ==
    /\ ticks < MaxTicks
    /\ \E d \in {1, DEFAULT_CACHE_EXPIRY - 1} : now' = now + d
    /\ ticks' = ticks + 1
    /\ UNCHANGED <<allow_urls, dirs, files, pc, task, resp, log, pred, probe>>

\* What is_cached finds at the path it derives: no file, a fresh or a stale one.
cache_state(url, cache_path) ==
    IF cache_path \notin DOMAIN files THEN "absent"
    ELSE IF is_cached(url, DEFAULT_CACHE_EXPIRY) THEN "fresh"
    ELSE "stale"

\* Lines 257-292 for the parameter raw, normalized to url: the redirect, the
\* Forbidden-URL error, or is_cached (whose get_cache_path makes the directory,
\* which fails when mkdir_ok is false) and the choice between cache and origin.
Validate(r, raw, url, allowed, cache_path, state, mkdir_ok) ==
    /\ mkdir_ok \/ (raw # <<>> /\ allowed /\ cache_path.dir \notin dirs)
    /\ IF raw = <<>>
       THEN /\ Finish(r, Redirect)
            /\ UNCHANGED <<task, log, dirs>>
       ELSE /\ task' = [task EXCEPT ![r] = [NoTask EXCEPT !.raw = raw, !.url = url,
                                                          !.cache_path = cache_path]]
            /\ IF ~allowed
               THEN /\ Finish(r, raise(url, ForbiddenURL))
                    /\ Logged(r, <<"forbidden">>)
                    /\ UNCHANGED dirs
               ELSE IF ~mkdir_ok
               THEN /\ Finish(r, raise(url, OSError))
                    /\ Logged(r, <<"allowed", "mkdir_err">>)
                    /\ UNCHANGED dirs
               ELSE /\ dirs' = dirs \cup {cache_path.dir}
                    /\ Logged(r, <<"allowed", "mkdir", state>>)
                    /\ pc' = [pc EXCEPT ![r] = IF state = "fresh" THEN "read_cache"
                                               ELSE "fetch"]
                    /\ UNCHANGED resp

Arrive(r, raw, url, mkdir_ok) ==
    Validate(r, raw, url, is_allowed(url, allow_urls), get_cache_path(url, None),
             cache_state(url, get_cache_path(url, None)), mkdir_ok)

\* A request arrives and runs to its first await.
Start(r) ==
    /\ pc[r] = "idle"
    /\ \A q \in Requests : q < r => pc[q] # "idle"
    /\ \E raw \in RawURLs, mkdir_ok \in BOOLEAN : Arrive(r, raw, normalize(raw), mkdir_ok)
    /\ pred' = [pred EXCEPT ![r] = {q \in Requests : pc[q] = "done"}]
    /\ UNCHANGED <<allow_urls, now, ticks, files, probe>>

\* Lines 285-292: a cached file named .html is read as text and returned as
\* a str, any other is read as bytes and returned as an image.
serve_cached(cache_path, bytes) ==
    IF EndsWith(cache_path.name, EXT_HTML)
    THEN Html(read_cache(bytes, FALSE))
    ELSE Response(read_cache(bytes, TRUE), IMAGE)

\* A handler that reads a cache file only when no request has it open for
\* writing.
ReadCache_exclusive(r) ==
    /\ pc[r] = "read_cache"
    /\ \A q \in Requests \ {r} :
        pc[q] = "write_data" => task[q].cache_path # task[r].cache_path
    /\ \E read_ok \in BOOLEAN :
        IF read_ok
        THEN /\ Finish(r, serve_cached(task[r].cache_path, files[task[r].cache_path].content))
             /\ Logged(r, <<"read">>)
        ELSE /\ Finish(r, raise(task[r].url, OSError))
             /\ Logged(r, <<"read_err">>)
    /\ UNCHANGED <<allow_urls, now, ticks, dirs, files, task, pred, probe>>

\* A handler with sliding expiration: serving an entry sets its mtime to now.
ReadCache_touch(r) ==
    /\ pc[r] = "read_cache"
    /\ \E read_ok \in BOOLEAN :
        IF read_ok
        THEN /\ Finish(r, serve_cached(task[r].cache_path, files[task[r].cache_path].content))
             /\ Logged(r, <<"read">>)
             /\ files' = [files EXCEPT ![task[r].cache_path].mtime = now]
        ELSE /\ Finish(r, raise(task[r].url, OSError))
             /\ Logged(r, <<"read_err">>)
             /\ UNCHANGED files
    /\ UNCHANGED <<allow_urls, now, ticks, dirs, task, pred, probe>>

\* The cache hit: read_cache and the return.
ReadCache(r) ==
    /\ pc[r] = "read_cache"
    /\ \E read_ok \in BOOLEAN :
        IF read_ok
        THEN /\ Finish(r, serve_cached(task[r].cache_path, files[task[r].cache_path].content))
             /\ Logged(r, <<"read">>)
        ELSE /\ Finish(r, raise(task[r].url, OSError))
             /\ Logged(r, <<"read_err">>)
    /\ UNCHANGED <<allow_urls, now, ticks, dirs, files, task, pred, probe>>

\* Line 331: a content type without "text/html" is binary.
classify(body, url, content_type) ==
    IF ~Contains(content_type, TEXT_HTML)
    THEN binary_branch(body, content_type)
    ELSE html_branch(body, url, content_type)

\* Lines 296-343 for what the origin answered: the error page of the except
\* block, the error page for a status other than 200, or the cache path and
\* the payload to cache.
Received(r, answer, cache_path, branch) ==
    /\ Logged(r, <<"fetch">>)
    /\ IF answer.exc # NoException
       THEN /\ Finish(r, raise(task[r].url, answer.exc))
            /\ task' = [task EXCEPT ![r].upstream = answer]
            /\ UNCHANGED dirs
       ELSE IF ~status_ok(answer.status)
       THEN /\ Finish(r, StatusPage(task[r].url, answer.status))
            /\ task' = [task EXCEPT ![r].upstream = answer]
            /\ UNCHANGED dirs
       ELSE /\ task' = [task EXCEPT ![r].upstream = answer,
                                    ![r].content_type = branch.content_type,
                                    ![r].cache_path = cache_path,
                                    ![r].content = branch.content,
                                    ![r].binary = branch.binary]
            /\ dirs' = dirs \cup {cache_path.dir}
            /\ pc' = [pc EXCEPT ![r] = "write_open"]
            /\ UNCHANGED resp

\* Line 327: the content type is the header in lower case.
Answered(r, answer, content_type) ==
    Received(r, answer, get_cache_path(task[r].url, content_type),
             classify(answer.body, task[r].url, content_type))

\* A handler that repeats the GET after a transport failure.
Fetch_retry(r) ==
    /\ pc[r] = "fetch"
    /\ \E answer \in Upstream :
        IF answer.exc # NoException
        THEN Logged(r, <<"fetch">>) /\ UNCHANGED <<pc, task, resp, dirs>>
        ELSE Answered(r, answer, Lower(answer.content_type))
    /\ UNCHANGED <<allow_urls, now, ticks, files, pred, probe>>

\* A handler that holds a lock per URL across fetch and write: it fetches only
\* when no other request for the URL is between its fetch and its return.
Fetch_locked(r) ==
    /\ pc[r] = "fetch"
    /\ \A q \in Requests \ {r} :
        task[q].url = task[r].url => pc[q] \notin {"write_open", "write_data", "return"}
    /\ \E answer \in Upstream : Answered(r, answer, Lower(answer.content_type))
    /\ UNCHANGED <<allow_urls, now, ticks, files, pred, probe>>

\* A handler that removes the entry of the URL when the origin does not
\* answer with 200.
Fetch_evict(r) ==
    /\ pc[r] = "fetch"
    /\ \E answer \in Upstream :
        /\ Answered(r, answer, Lower(answer.content_type))
        /\ files' = IF answer.exc = NoException /\ status_ok(answer.status)
                    THEN files
                    ELSE [p \in DOMAIN files \ {get_cache_path(task[r].url, None)} |-> files[p]]
    /\ UNCHANGED <<allow_urls, now, ticks, pred, probe>>

\* The outbound GET and what follows up to the next await.
Fetch(r) ==
    /\ pc[r] = "fetch"
    /\ \E answer \in Upstream : Answered(r, answer, Lower(answer.content_type))
    /\ UNCHANGED <<allow_urls, now, ticks, files, pred, probe>>

\* write_cache opens the file for writing, which creates or empties it
\* (lines 95, 98).
WriteOpen(r) ==
    /\ pc[r] = "write_open"
    /\ \E open_ok \in BOOLEAN :
        IF open_ok
        THEN /\ files' = Written(task[r].cache_path, <<>>, r)
             /\ Logged(r, <<"open_w">>)
             /\ pc' = [pc EXCEPT ![r] = "write_data"]
             /\ UNCHANGED resp
        ELSE /\ Finish(r, raise(task[r].url, OSError))
             /\ Logged(r, <<"open_err">>)
             /\ UNCHANGED files
    /\ UNCHANGED <<allow_urls, now, ticks, dirs, task, pred, probe>>

\* The content reaches the file (lines 96, 99).
WriteData(r) ==
    /\ pc[r] = "write_data"
    /\ \E write_ok \in BOOLEAN :
        IF write_ok
        THEN /\ files' = Written(task[r].cache_path,
                                 write_cache(task[r].content, task[r].binary), r)
             /\ Logged(r, <<"write">>)
             /\ pc' = [pc EXCEPT ![r] = "return"]
             /\ UNCHANGED resp
        ELSE /\ Finish(r, raise(task[r].url, OSError))
             /\ Logged(r, <<"write_err">>)
             /\ UNCHANGED files
    /\ UNCHANGED <<allow_urls, now, ticks, dirs, task, pred, probe>>

\* write_cache has returned and the handler returns the payload (lines 339, 348).
Return(r) ==
    /\ pc[r] = "return"
    /\ Finish(r, IF task[r].binary
                 THEN Response(task[r].content, task[r].content_type)
                 ELSE Html(task[r].content))
    /\ UNCHANGED <<allow_urls, now, ticks, dirs, files, task, log, pred, probe>>

NoProbe == [op |-> "none"]

Init ==
    /\ allow_urls = ALLOW_URLS
    /\ now = 0
    /\ ticks = 0
    /\ dirs = {}
    /\ files = <<>>
    /\ pc = [r \in Requests |-> "idle"]
    /\ task = [r \in Requests |-> NoTask]
    /\ resp = [r \in Requests |-> NoResponse]
    /\ log = [r \in Requests |-> <<>>]
    /\ pred = [r \in Requests |-> {}]
    /\ probe = NoProbe

Next ==
    \/ Tick
    \/ \E r \in Requests : Start(r)
    \/ \E r \in Requests : ReadCache(r)
    \/ \E r \in Requests : Fetch(r)
    \/ \E r \in Requests : WriteOpen(r)
    \/ \E r \in Requests : WriteData(r)
    \/ \E r \in Requests : Return(r)

\* The program as shipped.
Spec == Init /\ [][Next]_vars

\* The event loop runs every task that is ready, the disk operations complete
\* and the outbound call returns or runs into its timeout of 10 seconds.
FairSpec ==
    /\ Spec
    /\ \A r \in Requests :
        WF_vars(ReadCache(r) \/ Fetch(r) \/ WriteOpen(r) \/ WriteData(r) \/ Return(r))

\* The program with ALLOW_URLS as shipped or emptied.
InitAnyAllowlist ==
    /\ allow_urls \in Configurations
    /\ now = 0
    /\ ticks = 0
    /\ dirs = {}
    /\ files = <<>>
    /\ pc = [r \in Requests |-> "idle"]
    /\ task = [r \in Requests |-> NoTask]
    /\ resp = [r \in Requests |-> NoResponse]
    /\ log = [r \in Requests |-> <<>>]
    /\ pred = [r \in Requests |-> {}]
    /\ probe = NoProbe

SpecAnyAllowlist == InitAnyAllowlist /\ [][Next]_vars

\* An entry an earlier run of the server has left in CACHE_DIR.
OLD_ENTRY == <<Ch("o"), Ch("l"), Ch("d")>>

\* The program started on a cache directory that holds an entry for URL_AB,
\* written one TTL ago.
InitWarm ==
    /\ allow_urls = ALLOW_URLS
    /\ now = DEFAULT_CACHE_EXPIRY
    /\ ticks = 0
    /\ dirs = {get_cache_path(URL_AB, None).dir}
    /\ files = (get_cache_path(URL_AB, None) :> [content |-> OLD_ENTRY, mtime |-> 0, by |-> 0])
    /\ pc = [r \in Requests |-> "idle"]
    /\ task = [r \in Requests |-> NoTask]
    /\ resp = [r \in Requests |-> NoResponse]
    /\ log = [r \in Requests |-> <<>>]
    /\ pred = [r \in Requests |-> {}]
    /\ probe = NoProbe

SpecWarm == InitWarm /\ [][Next]_vars

---------------------------------------------------------------------------
(* get_cache_path as a function of two URLs and a content type.            *)

PathChars == {"/", "$", ":", "#", "a"}

Tails == UNION {[1..n -> PathChars] : n \in 0..MaxTail}

\* The second allowed origin, under https and under http.
Origins == {ALLOW_URLS[2], HTTP \o SubSeq(ALLOW_URLS[2], Len(HTTPS) + 1, Len(ALLOW_URLS[2]))}

PathURLs == {o \o t : o \in Origins, t \in Tails}

InitPath ==
    /\ allow_urls = ALLOW_URLS
    /\ now = 0
    /\ ticks = 0
    /\ dirs = {}
    /\ files = <<>>
    /\ pc = [r \in Requests |-> "idle"]
    /\ task = [r \in Requests |-> NoTask]
    /\ resp = [r \in Requests |-> NoResponse]
    /\ log = [r \in Requests |-> <<>>]
    /\ pred = [r \in Requests |-> {}]
    /\ probe \in [op : {"input"}, u1 : PathURLs, u2 : PathURLs, content_type : {None, CT_PNG}]

\* get_cache_path(u1, content_type) and get_cache_path(u2, content_type).
ResolvePaths ==
    /\ probe.op = "input"
    /\ probe' = [op |-> "get_cache_path", u1 |-> probe.u1, u2 |-> probe.u2,
                 content_type |-> probe.content_type,
                 p1 |-> get_cache_path(probe.u1, probe.content_type),
                 p2 |-> get_cache_path(probe.u2, probe.content_type)]
    /\ UNCHANGED <<allow_urls, now, ticks, dirs, files, pc, task, resp, log, pred>>

NextPath == ResolvePaths

SpecPath == InitPath /\ [][NextPath]_vars

---------------------------------------------------------------------------
(* rewrite_url as a function of an attribute value and a base URL.         *)

JAVASCRIPT == <<"j", "a", "v", "a", "s", "c", "r", "i", "p", "t", ":">>
DATA == <<"d", "a", "t", "a", ":">>
MAILTO == <<"m", "a", "i", "l", "t", "o", ":">>

\* What an attribute value starts with.
ValueHeads ==
    {<<>>, JAVASCRIPT, DATA, <<"#">>, MAILTO, HTTP, HTTPS, <<"H", "T", "T", "P", ":", "/", "/">>,
     <<"/">>, <<".", ".", "/">>, <<"d", "a", "y", "/", "2">>, <<"?", "q", "=">>}

AttributeValues == {None} \cup {h \o t : h \in ValueHeads, t \in Tails}

URL_DAY_1 == <<"h", "t", "t", "p", "s", ":", "/", "/", "a", "d", "v", "e", "n", "t", "o", "f", "c", "o", "d", "e", ".", "c", "o", "m", "/", "2", "0", "2", "3", "/", "d", "a", "y", "/", "1">>

BaseURLs == {URL_AB, URL_DAY_1}

InitRewrite ==
    /\ allow_urls = ALLOW_URLS
    /\ now = 0
    /\ ticks = 0
    /\ dirs = {}
    /\ files = <<>>
    /\ pc = [r \in Requests |-> "idle"]
    /\ task = [r \in Requests |-> NoTask]
    /\ resp = [r \in Requests |-> NoResponse]
    /\ log = [r \in Requests |-> <<>>]
    /\ pred = [r \in Requests |-> {}]
    /\ probe \in [op : {"value"}, url : AttributeValues, base_url : BaseURLs]

\* rewrite_url(url, base_url)
RewriteValue ==
    /\ probe.op = "value"
    /\ probe' = [op |-> "rewrite_url", url |-> probe.url, base_url |-> probe.base_url,
                 out |-> rewrite_url(probe.url, probe.base_url)]
    /\ UNCHANGED <<allow_urls, now, ticks, dirs, files, pc, task, resp, log, pred>>

NextRewrite == RewriteValue

SpecRewrite == InitRewrite /\ [][NextRewrite]_vars

---------------------------------------------------------------------------
(* rewrite_html on its own, over documents with and without an html        *)
(* element, a head, a base tag and a viewport meta tag.                    *)

BASE == El("base", <<>>)
BASE_HREF == El("base", [href |-> <<"/">>])
META_VIEWPORT == El("meta", [name |-> VIEWPORT, content |-> VIEWPORT_CONTENT])
LINK_A == El("a", [href |-> <<"d", "/", "2">>])

\* What the head of a document holds.
HeadContents ==
    {<<>>, <<BASE>>, <<BASE_HREF>>, <<META_VIEWPORT>>, <<BASE, META_VIEWPORT>>,
     <<BASE, BASE_HREF>>, <<El("title", <<>>), Ch("t"), El("/title", <<>>)>>}

Heads == {<<>>} \cup {<<El("head", <<>>)>> \o c \o <<El("/head", <<>>)>> : c \in HeadContents}

Bodies ==
    {<<>>, <<LINK_A>>, <<Ch("x")>>, <<BASE, LINK_A>>,
     <<El("body", <<>>), LINK_A, El("/body", <<>>)>>}

\* The documents, bare and inside an html element.
Documents ==
    {h \o b : h \in Heads, b \in Bodies}
    \cup {<<El("html", <<>>)>> \o h \o b \o <<El("/html", <<>>)>> : h \in Heads, b \in Bodies}

InitHtml ==
    /\ allow_urls = ALLOW_URLS
    /\ now = 0
    /\ ticks = 0
    /\ dirs = {}
    /\ files = <<>>
    /\ pc = [r \in Requests |-> "idle"]
    /\ task = [r \in Requests |-> NoTask]
    /\ resp = [r \in Requests |-> NoResponse]
    /\ log = [r \in Requests |-> <<>>]
    /\ pred = [r \in Requests |-> {}]
    /\ probe \in [op : {"document"}, html_content : Documents, base_url : BaseURLs]

\* rewrite_html(html_content, base_url)
RewriteDocument ==
    /\ probe.op = "document"
    /\ probe' = [op |-> "rewrite_html", html_content |-> probe.html_content,
                 base_url |-> probe.base_url,
                 out |-> rewrite_html(probe.html_content, probe.base_url)]
    /\ UNCHANGED <<allow_urls, now, ticks, dirs, files, pc, task, resp, log, pred>>

NextHtml == RewriteDocument

SpecHtml == InitHtml /\ [][NextHtml]_vars

---------------------------------------------------------------------------
(* The claims.                                                             *)

Has(r, e) == \E i \in DOMAIN log[r] : log[r][i] = e

Count(r, e) == Cardinality({i \in DOMAIN log[r] : log[r][i] = e})

\* The request has logged an event in this step, and e is the last one.
Logs(r, e) == Len(log'[r]) > Len(log[r]) /\ log'[r][Len(log'[r])] = e

Effects ==
    {"mkdir", "mkdir_err", "absent", "fresh", "stale", "fetch",
     "open_w", "open_err", "write", "write_err", "read", "read_err"}

HasParameter(r) == task[r].url # None

MatchesPrefix(url) == \E i \in DOMAIN allow_urls : StartsWith(url, allow_urls[i])

ForbiddenPage(r) ==
    /\ resp[r].kind = "error_exception"
    /\ resp[r].url = task[r].url
    /\ resp[r].error = ForbiddenURL.msg

\* The request returned a payload.
Served(r) == pc[r] = "done" /\ resp[r].kind \in {"html", "response"}

\* The outbound call of the request ended in a failure or in a status other than 200.
FetchFailed(r) ==
    /\ Has(r, "fetch")
    /\ task[r].upstream.exc # NoException \/ task[r].upstream.status # 200

\* The origin answered the request with 200.
Fetched200(r) ==
    /\ Has(r, "fetch")
    /\ task[r].upstream.exc = NoException
    /\ task[r].upstream.status = 200

\* The error page for what the outbound call ended in.
FetchErrorPage(r) ==
    /\ resp[r].url = task[r].url
    /\ IF task[r].upstream.exc # NoException
       THEN resp[r].kind = "error_exception" /\ resp[r].error = task[r].upstream.exc.msg
       ELSE resp[r].kind = "error_status" /\ resp[r].status_code = task[r].upstream.status

DiskFailed(r) == \E e \in {"mkdir_err", "open_err", "write_err", "read_err"} : Has(r, e)

\* Every other request had returned when r arrived.
Alone(r) == pred[r] = Requests \ {r}

\* The path is_cached looks at for the URL of the request.
EntryPath(r) == get_cache_path(task[r].url, None)

\* C1: the URL of every request is normalized (https:// is put in front of one
\* that starts with neither http:// nor https://) and then checked: a request
\* whose normalized URL starts with one of the configured prefixes passes the
\* guard, and one whose normalized URL starts with none of them makes no
\* directory, does no freshness check, cache read, cache write or fetch, and
\* ends in the Forbidden-URL error page.
C1_GuardBeforeEffects ==
    \A r \in Requests :
        HasParameter(r) =>
            /\ task[r].url = IF StartsWith(task[r].raw, HTTP) \/ StartsWith(task[r].raw, HTTPS)
                             THEN task[r].raw ELSE HTTPS \o task[r].raw
            /\ MatchesPrefix(task[r].url) => log[r][1] = "allowed"
            /\ ~MatchesPrefix(task[r].url) =>
                /\ \A e \in Effects : ~Has(r, e)
                /\ pc[r] = "done"
                /\ ForbiddenPage(r)

\* A URL without a scheme has passed the guard and been fetched, and a URL of
\* another origin has been rejected.
C1_Witness ==
    \E r, q \in Requests :
        /\ task[r].raw = URL_AB_NO_SCHEME /\ Has(r, "fetch")
        /\ task[q].raw = URL_EVIL /\ pc[q] = "done" /\ ForbiddenPage(q)

\* C2: with an empty allowlist every request with a url parameter is rejected
\* with the Forbidden-URL error and reaches neither the cache check nor the fetch.
C2_EmptyAllowlistRejectsAll ==
    allow_urls = <<>> =>
        \A r \in Requests :
            HasParameter(r) => pc[r] = "done" /\ ForbiddenPage(r) /\ log[r] = <<"forbidden">>

\* C3: after a request has fetched, cached and served a URL, a later request
\* for the same URL handled within the TTL (and without a disk failure)
\* returns the same bytes and does no outbound fetch.
C3_RepeatServedFromCache ==
    \A r1, r2 \in Requests :
        ( /\ r1 \in pred[r2]
          /\ HasParameter(r2)
          /\ task[r1].url = task[r2].url
          /\ Fetched200(r1) /\ Has(r1, "write") /\ Served(r1)
          /\ pc[r2] = "done"
          /\ ~DiskFailed(r2)
          /\ now < DEFAULT_CACHE_EXPIRY )
        => /\ ~Has(r2, "fetch")
           /\ resp[r2].body = resp[r1].body

\* C4: a request that finds the entry of its URL stale does exactly one fetch,
\* and when it returns the payload of a 200 response the entry of the URL
\* holds that payload and is fresh (no other request being under way).
C4_StaleEntryRefreshed ==
    [][\A r \in Requests :
        (pc[r] = "return" /\ pc'[r] = "done" /\ Has(r, "stale") /\ Alone(r))
        => /\ Count(r, "fetch") = 1
           /\ files'[EntryPath(r)].content = write_cache(task[r].content, task[r].binary)
           /\ now' - files'[EntryPath(r)].mtime < DEFAULT_CACHE_EXPIRY]_vars

\* C5: a request whose fetch ends in a failure or in a status other than 200
\* has returned the error page with its URL and the status code or the text of
\* the failure, and has written nothing: its fetch step leaves every cache file
\* as it was, it never opens or writes a file, and files change only in the
\* open and write steps of a request.
C5_FailedFetchLeavesCache ==
    /\ [](\A r \in Requests :
            FetchFailed(r) =>
                /\ pc[r] = "done"
                /\ FetchErrorPage(r)
                /\ ~Has(r, "open_w") /\ ~Has(r, "write"))
    /\ [][/\ \A r \in Requests : Logs(r, "fetch") => files' = files
          /\ files' # files => \E r \in Requests : Logs(r, "open_w") \/ Logs(r, "write")]_vars

\* A stale entry is on disk for the URL of a request whose fetch failed.
C5_Witness ==
    \E r \in Requests :
        /\ FetchFailed(r)
        /\ Has(r, "stale")
        /\ EntryPath(r) \in DOMAIN files
        /\ files[EntryPath(r)].content # <<>>

\* C6: a request whose fetch returned 200 and whose cache write failed still
\* returns the fetched (for HTML: rewritten) content.
C6_WriteFailureStillServes ==
    \A r \in Requests :
        (pc[r] = "done" /\ Fetched200(r) /\ (Has(r, "open_err") \/ Has(r, "write_err")))
        => /\ Served(r)
           /\ resp[r].body = IF task[r].binary THEN task[r].content
                             ELSE utf8_encode(task[r].content)

\* C7: every request that has arrived returns, and what it returns is the
\* redirect, a payload or an error page: the Forbidden-URL error, a failed
\* fetch and a failed disk operation each end in an error page with the URL
\* and the cause, and nothing is left unhandled.
C7_EveryRequestHandled ==
    /\ [](\A r \in Requests :
            pc[r] = "done" =>
                /\ resp[r].kind \in {"redirect", "html", "response",
                                     "error_status", "error_exception"}
                /\ Has(r, "forbidden") => ForbiddenPage(r)
                /\ FetchFailed(r) => FetchErrorPage(r)
                /\ DiskFailed(r) => /\ resp[r].kind = "error_exception"
                                    /\ resp[r].url = task[r].url
                                    /\ resp[r].error = OSError.msg)
    /\ \A r \in Requests : (pc[r] # "idle") ~> (pc[r] = "done")

\* One request has ended in a failed cache write, another in a timeout.
C7_Witness ==
    \E r, q \in Requests :
        /\ pc[r] = "done" /\ Has(r, "write_err") /\ resp[r].kind = "error_exception"
        /\ pc[q] = "done" /\ task[q].upstream.exc = TimeoutError

\* C8: two different URLs never get the same cache path for the same content
\* type.
C8_PathsCollisionFree ==
    (probe.op = "get_cache_path" /\ probe.u1 # probe.u2) => probe.p1 # probe.p2

\* The document of a request whose fetch returned 200 with text/html.
RewrittenDoc(r) == utf8_encode(rewrite_html(task[r].upstream.body, task[r].url))

HtmlMiss(r) == Fetched200(r) /\ Contains(Lower(task[r].upstream.content_type), TEXT_HTML)

\* C9: when a request returns the document of a 200 text/html response, it
\* has rewritten and then written it: the body returned is the rewritten
\* document and the entry of the URL holds exactly that document.
C9_EntryHoldsDocAtReturn ==
    [][\A r \in Requests :
        (pc[r] = "return" /\ pc'[r] = "done" /\ HtmlMiss(r))
        => /\ resp'[r].body = RewrittenDoc(r)
           /\ files'[EntryPath(r)].content = RewrittenDoc(r)]_vars

\* C10: a request whose fetch returned 200 with a content type without
\* text/html, and whose cache write went through, returns the bytes of the
\* origin with the content type of the origin, and has written those bytes.
C10_BinaryServedAsReceived ==
    \A r \in Requests :
        (pc[r] = "done" /\ Fetched200(r) /\ ~HtmlMiss(r) /\ Has(r, "write"))
        => /\ resp[r].kind = "response"
           /\ resp[r].body = task[r].upstream.body
           /\ resp[r].content_type = task[r].upstream.content_type
           /\ \A p \in DOMAIN files :
                files[p].by = r => files[p].content = task[r].upstream.body

RECURSIVE unquote(_)
\* The string a percent-encoded string stands for.
unquote(s) ==
    IF s = <<>> THEN <<>>
    ELSE IF s[1] = "%" /\ Len(s) >= 3
              /\ \E k \in 1..Len(QuotedCodes) : QuotedCodes[k] = SubSeq(s, 1, 3)
    THEN <<QuotedChars[CHOOSE k \in 1..Len(QuotedCodes) : QuotedCodes[k] = SubSeq(s, 1, 3)]>>
         \o unquote(SubSeq(s, 4, Len(s)))
    ELSE <<s[1]>> \o unquote(Tail(s))

Occurrences(s, c) == Cardinality({i \in 1..Len(s) : s[i] = c})

\* The value is absent, empty, or a javascript:, data:, fragment or mailto: link.
LeftAlone(v) ==
    \/ v = None
    \/ v = <<>>
    \/ \E h \in {JAVASCRIPT, DATA, <<"#">>, MAILTO} : StartsWith(v, h)

\* The absolute URL the value stands for.
AbsoluteURL(v, base_url) ==
    IF StartsWith(v, HTTP) \/ StartsWith(v, HTTPS) THEN v ELSE urljoin(base_url, v)

\* What follows "{prefix}/proxy?url=" in a rewritten value.
Encoded(out) == SubSeq(out, Len(PROXY_URL) + 1, Len(out))

\* C11 as stated: a value that is absent, empty or starts with javascript:,
\* data:, # or mailto: stays as it is; any other becomes {prefix}/proxy?url=
\* followed by the percent-encoded absolute URL (the value itself when it
\* starts with http:// or https://, else the value resolved against the base),
\* in which every ":" and every "/" is percent-encoded.
C11_ColonAndSlashEncoded ==
    probe.op = "rewrite_url" =>
        IF LeftAlone(probe.url) THEN probe.out = probe.url
        ELSE /\ StartsWith(probe.out, PROXY_URL)
             /\ unquote(Encoded(probe.out)) = AbsoluteURL(probe.url, probe.base_url)
             /\ Occurrences(Encoded(probe.out), ":") = 0
             /\ Occurrences(Encoded(probe.out), "/") = 0

\* C11: a value that is absent, empty or starts with javascript:, data:, # or
\* mailto: stays as it is; any other becomes {prefix}/proxy?url= followed by
\* the percent-encoded absolute URL (the value itself when it starts with
\* http:// or https://, else the value resolved against the base), in which
\* every ":" is percent-encoded and every "/" is left as it is.
C11_RewriteRule ==
    probe.op = "rewrite_url" =>
        IF LeftAlone(probe.url) THEN probe.out = probe.url
        ELSE /\ StartsWith(probe.out, PROXY_URL)
             /\ unquote(Encoded(probe.out)) = AbsoluteURL(probe.url, probe.base_url)
             /\ Occurrences(Encoded(probe.out), ":") = 0
             /\ Occurrences(Encoded(probe.out), "/")
                    = Occurrences(AbsoluteURL(probe.url, probe.base_url), "/")

\* The relative link day/2 of the page .../2023/day/1 has been rewritten.
C11_Witness ==
    /\ probe.op = "rewrite_url"
    /\ probe.url = <<"d", "a", "y", "/", "2">>
    /\ probe.base_url = URL_DAY_1
    /\ probe.out = PROXY_URL \o <<"h", "t", "t", "p", "s", "%", "3", "A">>
                     \o <<"/", "/", "a", "d", "v", "e", "n", "t", "o", "f", "c", "o", "d", "e", ".", "c", "o", "m">>
                     \o <<"/", "2", "0", "2", "3", "/", "d", "a", "y", "/", "d", "a", "y", "/", "2">>

\* The origin answered the request with 200 and an image content type.
ImageMiss(r) == Fetched200(r) /\ Contains(Lower(task[r].upstream.content_type), IMAGE)

\* C12: after a request has fetched and cached an image, a later request for
\* the same URL within the TTL (and without a disk failure) is a cache hit: it
\* does no outbound fetch and returns the stored bytes with the content type
\* "image"; a hit on an entry named .html returns the text of the file.
C12_ImageServedFromCache ==
    /\ \A r1, r2 \in Requests :
        ( /\ r1 \in pred[r2]
          /\ HasParameter(r2)
          /\ task[r1].url = task[r2].url
          /\ ImageMiss(r1) /\ Has(r1, "write") /\ Served(r1)
          /\ pc[r2] = "done"
          /\ ~DiskFailed(r2)
          /\ now < DEFAULT_CACHE_EXPIRY )
        => /\ ~Has(r2, "fetch")
           /\ Has(r2, "read")
           /\ resp[r2].kind = "response"
           /\ resp[r2].content_type = IMAGE
           /\ resp[r2].body = task[r1].upstream.body
    /\ \A r \in Requests :
        (pc[r] = "done" /\ Has(r, "read") /\ EndsWith(task[r].cache_path.name, EXT_HTML))
        => resp[r].kind = "html" /\ ~Has(r, "fetch")

\* The URLs the requests of the model ask for, normalized.
RequestURLs == {normalize(raw) : raw \in RawURLs \ {<<>>}}

\* The .html path of the URL.
HtmlPath(url) == [dir |-> urlparse(url).netloc, name |-> encode_url(url) \o EXT_HTML]

RequestPaths == {[url |-> url, path |-> HtmlPath(url)] : url \in RequestURLs}

\* C13: is_cached(url, maxAge) is true exactly when a file exists at the .html
\* path of the URL and now - mtime < maxAge (an age equal to maxAge is stale,
\* a missing file is never fresh), and an allowed request reads the cache
\* exactly when that holds for the TTL, and fetches otherwise.
C13_FreshIffYoungerThanMaxAge ==
    /\ [](\A e \in RequestPaths :
            \A max_age \in {1, DEFAULT_CACHE_EXPIRY} :
                is_cached(e.url, max_age)
                    <=> /\ e.path \in DOMAIN files
                        /\ now - files[e.path].mtime < max_age)
    /\ [][\A r \in Requests :
            (pc[r] = "idle" /\ pc'[r] \in {"read_cache", "fetch"})
            => (pc'[r] = "read_cache"
                    <=> /\ HtmlPath(task'[r].url) \in DOMAIN files
                        /\ now - files[HtmlPath(task'[r].url)].mtime < DEFAULT_CACHE_EXPIRY)]_vars

\* A request has found an entry whose age is exactly the TTL, and fetches.
C13_Witness ==
    \E r \in Requests :
        /\ pc[r] = "fetch"
        /\ Has(r, "stale")
        /\ HtmlPath(task[r].url) \in DOMAIN files
        /\ now - files[HtmlPath(task[r].url)].mtime = DEFAULT_CACHE_EXPIRY

\* C14: a request does at most one outbound GET: exactly one once it has
\* found its allowed URL absent or stale, none when it is served from the
\* cache, rejected or redirected for want of a url parameter; a request whose
\* fetch failed has returned without another GET.
C14_AtMostOneFetch ==
    \A r \in Requests :
        /\ Count(r, "fetch") <= 1
        /\ ((Has(r, "absent") \/ Has(r, "stale")) /\ pc[r] # "fetch") => Count(r, "fetch") = 1
        /\ (Has(r, "fresh") \/ Has(r, "forbidden")) => Count(r, "fetch") = 0
        /\ (pc[r] = "done" /\ ~HasParameter(r)) => resp[r] = Redirect /\ log[r] = <<>>
        /\ FetchFailed(r) => pc[r] = "done" /\ Count(r, "fetch") = 1

\* One request has found its URL absent and done its one fetch, another was
\* then served from the cache without a fetch.
C14_Witness ==
    \E r, q \in Requests :
        /\ pc[r] = "done" /\ Has(r, "fresh") /\ Served(r) /\ Count(r, "fetch") = 0
        /\ pc[q] = "done" /\ Has(q, "absent") /\ Served(q) /\ Count(q, "fetch") = 1

\* Another request for the same URL is between its freshness check and its return.
Overlaps(r) ==
    \E q \in Requests \ {r} :
        task[q].url = task[r].url /\ pc[q] \in {"fetch", "write_open", "write_data", "return"}

\* C15: nothing serializes a request behind another one for the same URL:
\* while the other is between its freshness check and its return, a request
\* that found the URL absent or stale can fetch, and one that has fetched can
\* open and write the cache file; so both can fetch and both write the file.
C15_NothingSerializesRequests ==
    \A r \in Requests :
        Overlaps(r) =>
            /\ pc[r] = "fetch" => ENABLED Fetch(r)
            /\ pc[r] = "write_open" => ENABLED (WriteOpen(r) /\ Logs(r, "open_w"))
            /\ pc[r] = "write_data" => ENABLED (WriteData(r) /\ Logs(r, "write"))

\* Two requests for the same URL, neither returned when the other arrived,
\* have both found the URL absent, both fetched and both written the same file.
C15_Witness ==
    \E r, q \in Requests :
        /\ r # q
        /\ task[r].url = task[q].url
        /\ r \notin pred[q] /\ q \notin pred[r]
        /\ Has(r, "absent") /\ Has(q, "absent")
        /\ Count(r, "fetch") = 1 /\ Count(q, "fetch") = 1
        /\ Has(r, "write") /\ Has(q, "write")
        /\ task[r].cache_path = task[q].cache_path

\* The request reads the file as it is on disk now and returns that.
ReadsAsIs(r) ==
    /\ ReadCache(r)
    /\ Logs(r, "read")
    /\ resp'[r].body = utf8_encode(read_cache(files[task[r].cache_path].content, FALSE))

\* Another request has opened the file of the request for writing and has
\* not written its content yet.
OpenForWriting(r) ==
    \E q \in Requests \ {r} : pc[q] = "write_data" /\ task[q].cache_path = task[r].cache_path

\* C16: nothing keeps a reader from a file that a writer has open: a request
\* that found the entry fresh can read it and return what is on disk while
\* another request is between the truncating open and the write; so it can
\* serve a body that is neither the previous entry nor the complete new one.
C16_ReaderNotExcluded ==
    \A r \in Requests :
        (pc[r] = "read_cache" /\ OpenForWriting(r)) => ENABLED ReadsAsIs(r)

\* A request has overwritten the stale entry of an earlier run; while it had
\* the file open, another request found the entry fresh and was served an
\* empty body: neither the old entry nor the new document.
C16_Witness ==
    \E r, q \in Requests :
        /\ r # q
        /\ task[r].url = task[q].url
        /\ Has(q, "stale") /\ Has(q, "write") /\ task[q].content # <<>>
        /\ q \notin pred[r]
        /\ Has(r, "fresh") /\ Has(r, "read") /\ Served(r)
        /\ task[r].cache_path = task[q].cache_path
        /\ resp[r].body = <<>>
        /\ resp[r].body # utf8_encode(read_cache(OLD_ENTRY, FALSE))
        /\ resp[r].body # utf8_encode(read_cache(write_cache(task[q].content, task[q].binary), FALSE))

\* The request found no fresh entry and the origin answered it with 200.
MissThenFetched(r) == (Has(r, "absent") \/ Has(r, "stale")) /\ Fetched200(r)

\* C17: cache entries are never deleted. No step removes a file; a file is
\* created or changed only by the write of a request that found no fresh
\* entry and fetched the URL with success, at the path of that request; and
\* the file of a request is there once the request has opened it.
C17_EntriesNeverDeleted ==
    [][/\ DOMAIN files \subseteq DOMAIN files'
       /\ \A p \in DOMAIN files' :
            (p \notin DOMAIN files \/ files'[p] # files[p]) =>
                \E r \in Requests :
                    /\ pc[r] \in {"write_open", "write_data"}
                    /\ MissThenFetched(r)
                    /\ p = task[r].cache_path
                    /\ files'[p].by = r
       /\ \A r \in Requests : Logs(r, "open_w") => task[r].cache_path \in DOMAIN files']_vars

\* The stale entry of an earlier run is on disk as it was after one request
\* found it stale and failed to fetch the URL, and another was forbidden.
C17_Witness ==
    \E r, q \in Requests :
        /\ r # q /\ pc[r] = "done" /\ pc[q] = "done"
        /\ Has(r, "stale") /\ FetchFailed(r) /\ FetchErrorPage(r)
        /\ Has(q, "forbidden") /\ ForbiddenPage(q)
        /\ EntryPath(r) \in DOMAIN files
        /\ files[EntryPath(r)] = [content |-> OLD_ENTRY, mtime |-> 0, by |-> 0]
        /\ now - files[EntryPath(r)].mtime >= DEFAULT_CACHE_EXPIRY

\* The positions of the base tags of a document that carry target="_self".
BaseTargets(doc) ==
    {i \in DOMAIN doc : doc[i].tag = "base" /\ HasAttr(doc[i], "target")
                        /\ doc[i].attrs.target = SELF}

\* The positions of the viewport meta tags of a document.
ViewportMetas(doc) ==
    {i \in DOMAIN doc : doc[i].tag = "meta" /\ HasAttr(doc[i], "name")
                        /\ doc[i].attrs.name = VIEWPORT}

\* C18: for every document that is not empty, the output of rewrite_html
\* holds exactly one base tag with target="_self" and a viewport meta tag,
\* whether the input had a base tag, a head, or only an html element.
C18_OneBaseAndViewport ==
    (probe.op = "rewrite_html" /\ probe.html_content # <<>>) =>
        /\ Cardinality(BaseTargets(probe.out)) = 1
        /\ ViewportMetas(probe.out) # {}

\* C19: a cache hit is read-only. The step in which a request finds its
\* entry fresh and the step in which it reads and returns it leave every
\* cache file as it was, content and mtime, and no file is ever written by a
\* request that found its entry fresh: being served does not extend an
\* entry's life.
C19_HitIsReadOnly ==
    [][/\ \A r \in Requests :
            (Logs(r, "fresh") \/ (pc[r] = "read_cache" /\ pc'[r] # "read_cache")) =>
                files' = files
       /\ \A p \in DOMAIN files' :
            (p \notin DOMAIN files \/ files'[p] # files[p]) =>
                /\ files'[p].by \in Requests
                /\ ~Has(files'[p].by, "fresh")]_vars

\* A request was served the entry another request had written, and the
\* entry has since become stale by the time of that write.
C19_Witness ==
    \E r \in Requests :
        /\ Has(r, "fresh") /\ Has(r, "read") /\ Served(r)
        /\ task[r].cache_path \in DOMAIN files
        /\ files[task[r].cache_path].by \in Requests \ {r}
        /\ Has(files[task[r].cache_path].by, "write")
        /\ resp[r].body = utf8_encode(read_cache(files[task[r].cache_path].content, FALSE))
        /\ now - files[task[r].cache_path].mtime >= DEFAULT_CACHE_EXPIRY

\* C20: the classification of a resource is stable between miss and hit:
\* when the request that wrote an entry took the binary branch and served the
\* bytes with the upstream content type, a request served that entry from
\* the cache is not given a decoded text/html document.
C20_ClassificationStable ==
    \A r, q \in Requests :
        (/\ r # q
         /\ q \in pred[r]
         /\ Has(q, "write") /\ task[q].binary
         /\ Served(q) /\ resp[q] = Response(task[q].upstream.body, task[q].content_type)
         /\ Has(r, "fresh") /\ Has(r, "read") /\ Served(r)
         /\ task[r].cache_path = task[q].cache_path) =>
            resp[r].kind # "html"

===========================================================================
